---------------------------- MODULE Spec2Model ----------------------------
(***************************************************************************)
(* A model of the GCIDE block parser (src/src/parser.rs) and of the GCIDE  *)
(* emitters (BlockItem::fmt in parser.rs, EntryItem::fmt_cide in           *)
(* exporter.rs).                                                           *)
(*                                                                         *)
(* Text is a sequence of one-character strings.  A BlockItem is a record   *)
(*   [k, s, u, items]                                                      *)
(* where k is the variant, s its text or name, u the url of an             *)
(* ExternalLink and items the children of a Tagged.                        *)
(***************************************************************************)
EXTENDS Integers, Sequences, FiniteSets, TLC

VARIABLES
    build,      \* "debug" (overflow checks on) or "release" (wrapping)
    input,      \* the text handed to Parser::new
    contents,   \* Parser.contents: the text not yet scanned
    out,        \* the values returned by Parser::next so far, in order
    halted,     \* the process has panicked
    flat,       \* pair_up_items: its argument
    rest,       \* pair_up_items: the items the loop has not taken yet
    stack,      \* pair_up_items: its stack
    texts,      \* identity pipeline: the input and every text emitted from it
    results,    \* identity pipeline: what Parser::next returned for each text
    preface,    \* what get_preface returned when it was last called, if it was
    pc,         \* patch_using: the statement it has reached
    file,       \* patch_using: what INFILE holds on disk
    patched,    \* patch_using: the text the patcher returned
    tree,       \* tohtml: the items being written
    html,       \* tohtml: what has been written for them
    outfile,    \* patch_using: the path it writes, "INFILE" or "OUTFILE"
    block_buffer,   \* EntryBuilder.block_buffer
    yielded,    \* the values returned by EntryBuilder::next so far, in order
    main_word,  \* EntryBuilder::next: its local main_word, once assigned
    blocks      \* EntryBuilder::next: its local blocks

\* the variables of the patcher, of tohtml and of EntryBuilder
others ==
    <<preface, pc, file, patched, outfile, tree, html, block_buffer, yielded,
      main_word, blocks>>

vars ==
    <<build, input, contents, out, halted, flat, rest, stack, texts, results,
      preface, pc, file, patched, outfile, tree, html, block_buffer, yielded,
      main_word, blocks>>

----------------------------------------------------------------------------
(* Text helpers *)

Digits == {"0", "1", "2", "3", "4", "5", "6", "7", "8", "9"}

Lower ==
    {"a", "b", "c", "d", "e", "f", "g", "h", "i", "j", "k", "l", "m",
     "n", "o", "p", "q", "r", "s", "t", "u", "v", "w", "x", "y", "z"}

Upper ==
    {"A", "B", "C", "D", "E", "F", "G", "H", "I", "J", "K", "L", "M",
     "N", "O", "P", "Q", "R", "S", "T", "U", "V", "W", "X", "Y", "Z"}

\* the characters nom's alphanumeric1 accepts
Alphanumeric == Digits \cup Lower \cup Upper

RECURSIVE Flatten(_)
\* the concatenation of a sequence of texts
Flatten(ss) ==
    IF ss = <<>> THEN <<>> ELSE Head(ss) \o Flatten(Tail(ss))

\* text from index i to the end (&s[i-1..] in the source's 0-based slices)
From(s, i) == SubSeq(s, i, Len(s))

\* pat occurs in s at index i
StartsWithAt(s, i, pat) ==
    /\ i + Len(pat) - 1 <= Len(s)
    /\ \A k \in 1..Len(pat) : s[i + k - 1] = pat[k]

\* str::find from index i: the first index >= i where pat occurs, 0 if none
Find(s, i, pat) ==
    LET hits == {j \in i..Len(s) : StartsWithAt(s, j, pat)}
    IN  IF hits = {} THEN 0 ELSE CHOOSE j \in hits : \A h \in hits : j <= h

\* the first index >= i whose character is in stop, Len(s)+1 if none
RunEnd(s, i, stop) ==
    LET hits == {j \in i..Len(s) : s[j] \in stop}
    IN  IF hits = {} THEN Len(s) + 1
        ELSE CHOOSE j \in hits : \A h \in hits : j <= h

\* the first index >= i whose character is not alphanumeric, Len(s)+1 if none
AlnumEnd(s, i) ==
    LET hits == {j \in i..Len(s) : s[j] \notin Alphanumeric}
    IN  IF hits = {} THEN Len(s) + 1
        ELSE CHOOSE j \in hits : \A h \in hits : j <= h

----------------------------------------------------------------------------
(* BlockItem *)

Item(k, s, u, items) == [k |-> k, s |-> s, u |-> u, items |-> items]

\* a Tagged mistaken to be built without the items drained from the stack
TaggedDropsItems(name, items) == Item("Tagged", name, <<>>, <<>>)

Tagged(name, items) == Item("Tagged", name, <<>>, items)
Comment(text) == Item("Comment", text, <<>>, <<>>)
Entity(name) == Item("Entity", name, <<>>, <<>>)
EntityBr == Item("EntityBr", <<>>, <<>>, <<>>)
EntityUnk == Item("EntityUnk", <<>>, <<>>, <<>>)
ExternalLink(url, text) == Item("ExternalLink", text, url, <<>>)
Plain(text) == Item("Plain", text, <<>>, <<>>)
Source(text) == Item("Source", text, <<>>, <<>>)
UnpairedTagOpen(name) == Item("UnpairedTagOpen", name, <<>>, <<>>)
UnpairedTagClose(name) == Item("UnpairedTagClose", name, <<>>, <<>>)

\* a failed recognizer
NoMatch == [ok |-> FALSE, item |-> EntityUnk, next |-> 0]

\* a recognizer's success: the item and the index after it
Match(item, next) == [ok |-> TRUE, item |-> item, next |-> next]

----------------------------------------------------------------------------
(* Lexical grammar: the nom recognizers, at index i of text s *)

plain(s, i) ==
    LET j == RunEnd(s, i, {"<", ">"})
    IN  IF j > i THEN Match(Plain(SubSeq(s, i, j - 1)), j) ELSE NoMatch

open_tag(s, i) ==
    LET j == AlnumEnd(s, i + 1)
    IN  IF /\ StartsWithAt(s, i, <<"<">>)
           /\ j > i + 1
           /\ StartsWithAt(s, j, <<">">>)
        THEN Match(UnpairedTagOpen(SubSeq(s, i + 1, j - 1)), j + 1)
        ELSE NoMatch

\* a close_tag mistaken to build the item of an open tag
close_tag_as_open(s, i) ==
    LET j == AlnumEnd(s, i + 2)
    IN  IF /\ StartsWithAt(s, i, <<"<", "/">>)
           /\ j > i + 2
           /\ StartsWithAt(s, j, <<">">>)
        THEN Match(UnpairedTagOpen(SubSeq(s, i + 2, j - 1)), j + 1)
        ELSE NoMatch

close_tag(s, i) ==
    LET j == AlnumEnd(s, i + 2)
    IN  IF /\ StartsWithAt(s, i, <<"<", "/">>)
           /\ j > i + 2
           /\ StartsWithAt(s, j, <<">">>)
        THEN Match(UnpairedTagClose(SubSeq(s, i + 2, j - 1)), j + 1)
        ELSE NoMatch

\* an entity recognizer mistaken to leave the newline after <br/ in place
entity_keeps_newline(s, i) ==
    LET j == AlnumEnd(s, i + 1)
    IN  IF StartsWithAt(s, i, <<"<", "?", "/">>)
        THEN Match(EntityUnk, i + 3)
        ELSE IF StartsWithAt(s, i, <<"<", "b", "r", "/">>)
        THEN Match(EntityBr, i + 4)
        ELSE IF /\ StartsWithAt(s, i, <<"<">>)
                /\ j > i + 1
                /\ StartsWithAt(s, j, <<"/">>)
        THEN Match(Entity(SubSeq(s, i + 1, j - 1)), j + 1)
        ELSE NoMatch

entity(s, i) ==
    LET j == AlnumEnd(s, i + 1)
    IN  IF StartsWithAt(s, i, <<"<", "?", "/">>)
        THEN Match(EntityUnk, i + 3)
        ELSE IF StartsWithAt(s, i, <<"<", "b", "r", "/">>)
        THEN Match(EntityBr,
                   IF StartsWithAt(s, i + 4, <<"\n">>) THEN i + 5 ELSE i + 4)
        ELSE IF /\ StartsWithAt(s, i, <<"<">>)
                /\ j > i + 1
                /\ StartsWithAt(s, j, <<"/">>)
        THEN Match(Entity(SubSeq(s, i + 1, j - 1)), j + 1)
        ELSE NoMatch

comment(s, i) ==
    LET j == Find(s, i + 3, <<"-", "-", ">">>)
    IN  IF StartsWithAt(s, i, <<"<", "-", "-">>) /\ j # 0
        THEN Match(Comment(SubSeq(s, i + 3, j - 1)), j + 3)
        ELSE NoMatch

\* the nine characters <a href="
LinkOpen == <<"<", "a", " ", "h", "r", "e", "f", "=", "\"">>

ext_link(s, i) ==
    LET j == RunEnd(s, i + 9, {"\""})
        k == RunEnd(s, j + 2, {"<", ">"})
    IN  IF /\ StartsWithAt(s, i, LinkOpen)
           /\ j > i + 9
           /\ StartsWithAt(s, j, <<"\"", ">">>)
           /\ k > j + 2
           /\ StartsWithAt(s, k, <<"<", "/", "a", ">">>)
        THEN Match(ExternalLink(SubSeq(s, i + 9, j - 1),
                                SubSeq(s, j + 2, k - 1)), k + 4)
        ELSE NoMatch

\* alt!: the first recognizer that matches
block_item(s, i) ==
    IF plain(s, i).ok THEN plain(s, i)
    ELSE IF open_tag(s, i).ok THEN open_tag(s, i)
    ELSE IF close_tag(s, i).ok THEN close_tag(s, i)
    ELSE IF entity(s, i).ok THEN entity(s, i)
    ELSE IF comment(s, i).ok THEN comment(s, i)
    ELSE ext_link(s, i)

RECURSIVE LexFrom(_, _, _)
\* many0!(block_item) from index i, acc the items so far: the items and the
\* index of the first character not consumed
LexFrom(s, i, acc) ==
    LET m == block_item(s, i)
    IN  IF i <= Len(s) /\ m.ok
        THEN LexFrom(s, m.next, Append(acc, m.item))
        ELSE [items |-> acc, next |-> i]

\* parse_items(CompleteStr(s)): the items and the unparsed rest
parse_items(s) ==
    LET r == LexFrom(s, 1, <<>>)
    IN  [items |-> r.items, unparsed |-> From(s, r.next)]

----------------------------------------------------------------------------
(* Emitters *)

\* the marker [ERROR->]
ErrorMarker == <<"[", "E", "R", "R", "O", "R", "-", ">", "]">>

\* an allowed_to_dangle that misses note
dangle_without_note ==
    { <<"c", "o", "l", "l", "a", "p", "s", "e">>, <<"c", "s">>,
      <<"u", "s", "a", "g", "e">> }

\* BlockItem::fmt's allowed_to_dangle
allowed_to_dangle ==
    { <<"c", "o", "l", "l", "a", "p", "s", "e">>, <<"c", "s">>,
      <<"n", "o", "t", "e">>, <<"u", "s", "a", "g", "e">> }

\* <name>
OpenText(name) == <<"<">> \o name \o <<">">>

\* </name>
CloseText(name) == <<"<", "/">> \o name \o <<">">>

RECURSIVE FmtItems(_)
RECURSIVE Fmt(_)
\* Display for BlockItem
Fmt(item) ==
    CASE item.k = "Comment" ->
            <<"<", "-", "-">> \o item.s \o <<"-", "-", ">">>
      [] item.k = "Entity" -> <<"<">> \o item.s \o <<"/">>
      [] item.k = "EntityBr" -> <<"<", "b", "r", "/", "\n">>
      [] item.k = "EntityUnk" -> <<"<", "?", "/">>
      [] item.k = "ExternalLink" ->
            LinkOpen \o item.u \o <<"\"", ">">> \o item.s
                \o <<"<", "/", "a", ">">>
      [] item.k = "Plain" -> item.s
      [] item.k = "Source" ->
            ErrorMarker \o OpenText(<<"s", "o", "u", "r", "c", "e">>)
                \o item.s \o CloseText(<<"s", "o", "u", "r", "c", "e">>)
      [] item.k = "Tagged" ->
            OpenText(item.s) \o FmtItems(item.items) \o CloseText(item.s)
      [] item.k = "UnpairedTagOpen" ->
            IF item.s \in allowed_to_dangle
            THEN OpenText(item.s)
            ELSE ErrorMarker \o OpenText(item.s)
      [] item.k = "UnpairedTagClose" ->
            IF item.s \in allowed_to_dangle
            THEN CloseText(item.s)
            ELSE ErrorMarker \o CloseText(item.s)

\* the items of a list written one after the other
FmtItems(items) ==
    IF items = <<>> THEN <<>> ELSE Fmt(Head(items)) \o FmtItems(Tail(items))

RECURSIVE JoinSources(_)
\* sources.join(" + ") of the <source>..</source> texts
JoinSources(sources) ==
    IF sources = <<>> THEN <<>>
    ELSE OpenText(<<"s", "o", "u", "r", "c", "e">>) \o Head(sources)
            \o CloseText(<<"s", "o", "u", "r", "c", "e">>)
            \o (IF Len(sources) > 1 THEN <<" ", "+", " ">> ELSE <<>>)
            \o JoinSources(Tail(sources))

\* Display for Block
BlockFmt(items, sources) ==
    <<"<", "p", ">">> \o FmtItems(items)
        \o (IF Len(sources) > 0
            THEN <<"<", "b", "r", "/", "\n", "[">> \o JoinSources(sources)
                    \o <<"]", "<", "/", "p", ">">>
            ELSE <<"<", "/", "p", ">">>)

\* Display for ParserError
ParserErrorFmt(leading, trailing) == leading \o ErrorMarker \o trailing

\* EntryItem::fmt_cide's allowed_to_dangle
cide_allowed_to_dangle ==
    { <<"c", "o", "l", "l", "a", "p", "s", "e">>, <<"c", "s">>,
      <<"n", "o", "t", "e">>, <<"u", "s", "a", "g", "e">> }

\* write_tag_open; source is <<>> for None and <<text>> for Some(text)
write_tag_open(name, source) ==
    IF source = <<>> THEN OpenText(name)
    ELSE IF name = <<"p">> \/ name = <<"e", "x", "t", "r", "a">>
    THEN <<"<">> \o name \o <<" ", "s", "o", "u", "r", "c", "e", "=", "\"">>
            \o source[1] \o <<"\"", ">">>
    ELSE <<"<">> \o name \o <<" ">> \o ErrorMarker
            \o <<"s", "o", "u", "r", "c", "e", "=", "\"">>
            \o source[1] \o <<"\"", ">">>

RECURSIVE FmtCideItems(_)
RECURSIVE fmt_cide(_)
\* DisplayCIDE for EntryItem (PlainText is k = "Plain"; the source attribute
\* of Tagged and UnpairedTagOpen is field u, <<>> when absent)
fmt_cide(item) ==
    CASE item.k = "Comment" ->
            <<"<", "-", "-">> \o item.s \o <<"-", "-", ">">>
      [] item.k = "Entity" -> <<"<">> \o item.s \o <<"/">>
      [] item.k = "EntityBr" -> <<"<", "b", "r", "/", "\n">>
      [] item.k = "EntityUnk" -> <<"<", "?", "/">>
      [] item.k = "ExternalLink" ->
            LinkOpen \o item.u \o <<"\"", ">">> \o item.s
                \o <<"<", "/", "a", ">">>
      [] item.k = "Plain" -> item.s
      [] item.k = "Tagged" ->
            write_tag_open(item.s, item.u) \o FmtCideItems(item.items)
                \o CloseText(item.s)
      [] item.k = "UnpairedTagOpen" ->
            (IF item.s \notin cide_allowed_to_dangle
             THEN ErrorMarker ELSE <<>>) \o write_tag_open(item.s, item.u)
      [] item.k = "UnpairedTagClose" ->
            IF item.s \notin cide_allowed_to_dangle
            THEN ErrorMarker \o CloseText(item.s)
            ELSE CloseText(item.s)

\* the items of a list written one after the other by fmt_cide
FmtCideItems(items) ==
    IF items = <<>> THEN <<>>
    ELSE fmt_cide(Head(items)) \o FmtCideItems(Tail(items))

----------------------------------------------------------------------------
(* Tag pairer *)

\* usize::MAX; TLC's integers are 32 bits wide, so the largest of them stands
\* for it: all that is used of it is that it exceeds every Vec length
UsizeMax == 2147483647

\* a - b on usize in a release build: wraps around
WrappingSub(a, b) == IF a >= b THEN a - b ELSE UsizeMax - (b - a) + 1

\* a - b on usize panics in a debug build when b > a
SubOverflows(bld, a, b) == bld = "debug" /\ a < b

\* a search mistaken to run from the front: the first needle, not the last
linear_search_from_front(haystack, needles) ==
    LET hits == {j \in 1..Len(haystack) : haystack[j] \in needles}
    IN  IF hits = {} THEN -1
        ELSE (CHOOSE j \in hits : \A h \in hits : j <= h) - 1

\* linear_search_rev_by: the 0-based index of the last item that is a needle
\* (the closure is_needle is given as the set of the items it accepts), -1 for
\* None
linear_search_rev_by(haystack, needles) ==
    LET hits == {j \in 1..Len(haystack) : haystack[j] \in needles}
    IN  IF hits = {} THEN -1
        ELSE (CHOOSE j \in hits : \A h \in hits : h <= j) - 1

\* linear_search_rev
linear_search_rev(haystack, needle) ==
    linear_search_rev_by(haystack, {needle})

\* a reduction mistaken to keep the items above open_idx on the stack
ReduceKeepsAbove(stk, open_idx, item) ==
    SubSeq(stk, 1, open_idx) \o <<item>> \o SubSeq(stk, open_idx + 2, Len(stk))

\* stack[open_idx] = item, with stack.drain(open_idx+1..) done (0-based)
ReduceAt(stk, open_idx, item) == Append(SubSeq(stk, 1, open_idx), item)

SourceName == <<"s", "o", "u", "r", "c", "e">>
ColName == <<"c", "o", "l">>
BName == <<"b">>

\* Source("[ERROR->]plaintext")
BadSource ==
    Source(ErrorMarker \o <<"p", "l", "a", "i", "n", "t", "e", "x", "t">>)

\* one iteration of pair_up_items' loop: the stack after it, or a panic
PairStep(stk, item, bld) ==
    LET name == item.s
        open_idx == linear_search_rev(stk, UnpairedTagOpen(name))
        len == Len(stk)
        top == stk[len]
        push == [panic |-> FALSE, stack |-> Append(stk, item)]
        set(it) == [panic |-> FALSE, stack |-> ReduceAt(stk, open_idx, it)]
        abort == [panic |-> TRUE, stack |-> stk]
    IN  IF item.k # "UnpairedTagClose" THEN push
        ELSE IF open_idx = -1 THEN push
        ELSE IF name = SourceName
        THEN IF SubOverflows(bld, len, 2) THEN abort
             ELSE IF open_idx = WrappingSub(len, 2) /\ top.k = "Plain"
             THEN set(Source(top.s))
             ELSE set(BadSource)
        ELSE IF name = ColName
        THEN IF SubOverflows(bld, len, 2) THEN abort
             ELSE IF /\ open_idx = WrappingSub(len, 2)
                     /\ top.k = "Tagged"
                     /\ top.s = BName
             THEN set(Tagged(ColName, top.items))
             ELSE set(Tagged(name, SubSeq(stk, open_idx + 2, len)))
        ELSE set(Tagged(name, SubSeq(stk, open_idx + 2, len)))

RECURSIVE PairFrom(_, _, _)
\* pair_up_items' loop over items, from stack stk
PairFrom(stk, items, bld) ==
    LET r == PairStep(stk, Head(items), bld)
    IN  IF items = <<>> THEN [panic |-> FALSE, stack |-> stk]
        ELSE IF r.panic THEN r
        ELSE PairFrom(r.stack, Tail(items), bld)

\* pair_up_items
pair_up_items(items, bld) == PairFrom(<<>>, items, bld)

----------------------------------------------------------------------------
(* Blocks *)

PName == <<"p">>

\* is_bracket_open of process_block_items: the items it accepts
is_bracket_open == {Plain(<<"[">>), Plain(<<"\n", "[">>)}

RECURSIVE SourceNames(_)
\* the texts of the Source items of a list, in order
SourceNames(items) ==
    IF items = <<>> THEN <<>>
    ELSE (IF Head(items).k = "Source" THEN <<Head(items).s>> ELSE <<>>)
            \o SourceNames(Tail(items))

\* the source-extraction step of process_block_items on the paired items
ExtractSources(items, bld) ==
    LET idx == linear_search_rev_by(items, is_bracket_open)
        keep == [panic |-> FALSE, items |-> items, sources |-> <<>>]
        prev == WrappingSub(idx, 1)
    IN  IF items = <<>> \/ items[Len(items)] # Plain(<<"]">>) THEN keep
        ELSE IF idx = -1 THEN keep
        ELSE IF ~(idx + 2 <= Len(items) /\ items[idx + 2].k = "Source")
        THEN keep
        ELSE IF SubOverflows(bld, idx, 1) \/ prev >= Len(items)
        THEN [panic |-> TRUE, items |-> items, sources |-> <<>>]
        ELSE [panic |-> FALSE,
              items |-> IF items[prev + 1] = EntityBr
                        THEN SubSeq(items, 1, idx - 1)
                        ELSE SubSeq(items, 1, idx),
              sources |-> SourceNames(From(items, idx + 2))]

\* process_block_items: the Block, or a panic
process_block_items(items, bld) ==
    LET inner == SubSeq(items, 2, Len(items) - 1)
        paired == pair_up_items(inner, bld)
    IN  IF \/ Len(items) < 2
           \/ items[1] # UnpairedTagOpen(PName)
           \/ items[Len(items)] # UnpairedTagClose(PName)
           \/ paired.panic
        THEN [panic |-> TRUE, items |-> <<>>, sources |-> <<>>]
        ELSE ExtractSources(paired.stack, bld)

----------------------------------------------------------------------------
(* Parser *)

\* Some(Ok(block))
SomeOk(items, sources) ==
    [tag |-> "Ok", items |-> items, sources |-> sources,
     leading |-> <<>>, trailing |-> <<>>]

\* Some(Err(ParserError { leading, trailing }))
SomeErr(leading, trailing) ==
    [tag |-> "Err", items |-> <<>>, sources |-> <<>>,
     leading |-> leading, trailing |-> trailing]

\* None
None ==
    [tag |-> "None", items |-> <<>>, sources |-> <<>>,
     leading |-> <<>>, trailing |-> <<>>]

\* block_start: the index where the first <p> starts, 0 when there is none
block_start(s) == Find(s, 1, <<"<", "p", ">">>)

\* a Parser::next mistaken to leave the contents in place on a missing </p>
NoCloseKeepsContents(remaining) ==
    [panic |-> FALSE, ret |-> SomeErr(<<>>, remaining),
     contents |-> remaining]

\* Parser::next when no </p> follows the <p>: what it returns and leaves
NoClose(remaining) ==
    [panic |-> FALSE, ret |-> SomeErr(<<>>, remaining), contents |-> <<>>]

\* a ParserError mistaken to take the whole block as leading
BlockErrorWholeLeading(block_str, unparsed) ==
    SomeErr(block_str, unparsed)

\* the ParserError of a block whose lexing stopped with unparsed left
BlockError(block_str, unparsed) ==
    LET lead_len == Len(block_str) - Len(unparsed)
    IN  SomeErr(SubSeq(block_str, 1, lead_len), unparsed)

\* Parser::next on contents c: what it returns, the contents it leaves, and
\* whether it panics instead of returning
ParserNext(c, bld) ==
    LET start == block_start(c)
        remaining == From(c, start)
        end_idx_opt == Find(remaining, 1, <<"<", "/", "p", ">">>)
        end_idx == end_idx_opt - 1 + 4
        block_str == SubSeq(remaining, 1, end_idx)
        parsed == parse_items(block_str)
        block == process_block_items(parsed.items, bld)
    IN  IF start = 0
        THEN [panic |-> FALSE, ret |-> None, contents |-> c]
        ELSE IF end_idx_opt = 0
        THEN NoClose(remaining)
        ELSE IF Len(parsed.unparsed) > 0
        THEN [panic |-> FALSE,
              ret |-> BlockError(block_str, parsed.unparsed),
              contents |-> From(remaining, end_idx + 1)]
        ELSE IF block.panic
        THEN [panic |-> TRUE, ret |-> None,
              contents |-> From(remaining, end_idx + 1)]
        ELSE [panic |-> FALSE, ret |-> SomeOk(block.items, block.sources),
              contents |-> From(remaining, end_idx + 1)]

----------------------------------------------------------------------------
(* Inputs *)

\* the longest input of the scanner, in chunks
MaxChunks == 6

\* the most calls of Parser::next on one input
MaxCalls == 4

\* the longest argument of pair_up_items
MaxItems == 4

\* the longest body of the identity pipeline's block, in chunks
MaxBody == 4

\* the texts emitted from one input by the identity pipeline
MaxRounds == 2

\* all sequences of at most n elements of S
SeqsUpTo(S, n) == UNION {[1..m -> S] : m \in 0..n}

\* the pieces the scanner's inputs are made of
ScanChunks ==
    { <<"<", "p", ">">>, <<"<", "/", "p", ">">>, <<"t">>, <<">">>,
      <<"[">> \o OpenText(SourceName) \o <<"t">> \o CloseText(SourceName)
            \o <<"]">> }

ScanInputs == {Flatten(cs) : cs \in SeqsUpTo(ScanChunks, MaxChunks)}

\* the items pair_up_items is given
PairNames == {SourceName, ColName, BName, <<"i">>}

PairItems ==
    {UnpairedTagOpen(n) : n \in PairNames}
        \cup {UnpairedTagClose(n) : n \in PairNames}
        \cup {Plain(<<"t">>)}

----------------------------------------------------------------------------
(* The scanner: Parser::new(input), then calls of next() *)

\* the patcher, tohtml and EntryBuilder are not running
OthersIdle ==
    /\ preface = <<>>
    /\ pc = "off"
    /\ file = <<>>
    /\ patched = <<>>
    /\ outfile = "INFILE"
    /\ tree = <<>>
    /\ html = <<>>
    /\ block_buffer = <<>>
    /\ yielded = <<>>
    /\ main_word = <<>>
    /\ blocks = <<>>

Idle ==
    /\ flat = <<>>
    /\ rest = <<>>
    /\ stack = <<>>
    /\ texts = <<>>
    /\ results = <<>>

Init ==
    /\ build \in {"debug", "release"}
    /\ input \in ScanInputs
    /\ contents = input
    /\ out = <<>>
    /\ halted = FALSE
    /\ Idle
    /\ OthersIdle

\* one call of Parser::next
NextCall ==
    /\ ~halted
    /\ Len(out) < MaxCalls
    /\ \E r \in {ParserNext(contents, build)} :
           \/ /\ r.panic
              /\ halted' = TRUE
              /\ contents' = r.contents
              /\ out' = out
           \/ /\ ~r.panic
              /\ halted' = FALSE
              /\ contents' = r.contents
              /\ out' = Append(out, r.ret)
    /\ UNCHANGED <<build, input, flat, rest, stack, texts, results, others>>

Next == NextCall

Spec == Init /\ [][Next]_vars

----------------------------------------------------------------------------
(* The tag pairer: pair_up_items(flat), one loop iteration per step *)

PairInit ==
    /\ build \in {"debug", "release"}
    /\ flat \in SeqsUpTo(PairItems, MaxItems)
    /\ rest = flat
    /\ stack = <<>>
    /\ halted = FALSE
    /\ input = <<>>
    /\ contents = <<>>
    /\ out = <<>>
    /\ texts = <<>>
    /\ results = <<>>
    /\ OthersIdle

\* one iteration of `for item in items`
PairLoop ==
    /\ ~halted
    /\ rest # <<>>
    /\ \E r \in {PairStep(stack, Head(rest), build)} :
           \/ /\ r.panic
              /\ halted' = TRUE
              /\ UNCHANGED <<rest, stack>>
           \/ /\ ~r.panic
              /\ stack' = r.stack
              /\ rest' = Tail(rest)
              /\ halted' = FALSE
    /\ UNCHANGED <<build, input, contents, out, flat, texts, results, others>>

PairNext == PairLoop

PairSpec == PairInit /\ [][PairNext]_vars

----------------------------------------------------------------------------
(* The identity pipeline: parse a block, write it, parse what was written *)

\* the pieces the bodies of the pipeline's blocks are made of
BodyChunks ==
    { <<"t">>, <<"[">>, <<"]">>, <<"\n">>,
      OpenText(<<"i">>), CloseText(<<"i">>), CloseText(BName),
      CloseText(<<"n", "o", "t", "e">>),
      <<"<", "b", "r", "/">>, <<"<", "e", "/">>,
      OpenText(SourceName) \o <<"t">> \o CloseText(SourceName),
      OpenText(SourceName) \o CloseText(SourceName) }

IdInputs ==
    {OpenText(PName) \o Flatten(cs) \o CloseText(PName) :
        cs \in SeqsUpTo(BodyChunks, MaxBody)}

IdInit ==
    /\ build \in {"debug", "release"}
    /\ input \in IdInputs
    /\ texts = <<input>>
    /\ results = <<>>
    /\ halted = FALSE
    /\ contents = <<>>
    /\ out = <<>>
    /\ flat = <<>>
    /\ rest = <<>>
    /\ stack = <<>>
    /\ OthersIdle

\* Parser::new(text).next() on the newest text
IdParse ==
    /\ ~halted
    /\ Len(results) < Len(texts)
    /\ \E r \in {ParserNext(texts[Len(texts)], build)} :
           \/ /\ r.panic
              /\ halted' = TRUE
              /\ results' = results
           \/ /\ ~r.panic
              /\ halted' = FALSE
              /\ results' = Append(results, r.ret)
    /\ UNCHANGED <<build, input, contents, out, flat, rest, stack, texts,
                   others>>

\* write!("{}", block) or write!("{}", err) of the newest result
Emit(r) ==
    IF r.tag = "Ok" THEN BlockFmt(r.items, r.sources)
    ELSE ParserErrorFmt(r.leading, r.trailing)

IdEmit ==
    /\ ~halted
    /\ Len(results) = Len(texts)
    /\ Len(texts) <= MaxRounds
    /\ results[Len(results)].tag # "None"
    /\ texts' = Append(texts, Emit(results[Len(results)]))
    /\ UNCHANGED <<build, input, contents, out, halted, flat, rest, stack,
                   results, others>>

IdNext == IdParse \/ IdEmit

IdSpec == IdInit /\ [][IdNext]_vars

----------------------------------------------------------------------------
(* Properties of the scanner *)

RECURSIVE SpanList(_)
\* the spans of a text, in order: each runs from a <p> to the first </p> after
\* it; the last one is not closed when no </p> follows its <p>
SpanList(s) ==
    LET st == Find(s, 1, OpenText(PName))
        en == Find(s, st, CloseText(PName))
    IN  IF st = 0 THEN <<>>
        ELSE IF en = 0 THEN <<[text |-> From(s, st), closed |-> FALSE]>>
        ELSE <<[text |-> SubSeq(s, st, en + 3), closed |-> TRUE]>>
                \o SpanList(From(s, en + 4))

\* the text lexes to its end
Lexes(t) == parse_items(t).unparsed = <<>>

\* t ends with pat
EndsWith(t, pat) ==
    Len(t) >= Len(pat) /\ StartsWithAt(t, Len(t) - Len(pat) + 1, pat)

\* C7: no input aborts the process: no call of next() panics.
C7_NoPanic == ~halted

\* the contents hold a <p> that no </p> follows
MissingClose(c) ==
    /\ block_start(c) # 0
    /\ Find(From(c, block_start(c)), 1, CloseText(PName)) = 0

\* a ParserError of a missing </p>: a block's error has at least its <p> as
\* leading
IsMissingCloseErr(r) == r.tag = "Err" /\ r.leading = <<>>

\* C8: a <p> that no </p> follows makes next() return one ParserError with an
\* empty leading and the whole remainder from the <p> on as trailing, and
\* every later call of next() returns None.
C8_MissingCloseTerminal ==
    [][/\ (MissingClose(contents) /\ out' # out) =>
            out' = Append(out,
                    SomeErr(<<>>, From(contents, block_start(contents))))
       /\ ((\E k \in 1..Len(out) : IsMissingCloseErr(out[k])) /\ out' # out)
            => out' = Append(out, None)]_vars

\* C8's case: after at least one block, a missing </p> was reported and
\* next() was called again
C8_Witness ==
    \E k \in 2..Len(out) :
        /\ IsMissingCloseErr(out[k])
        /\ out[k].trailing # <<>>
        /\ Len(out) > k
        /\ out[Len(out)] = None

\* C9: after the ParserError of one span, every later span that lexes to its
\* end is still returned as Ok, the k-th value for the k-th span.
C9_BlockErrorNotTerminal ==
    LET spans == SpanList(input)
    IN  \A k \in 1..Len(out) : \A j \in 1..Len(spans) :
            ( /\ k < j
              /\ out[k].tag = "Err"
              /\ spans[k].closed
              /\ spans[j].closed
              /\ Lexes(spans[j].text)
              /\ (Len(out) >= j \/ halted) )
            => (Len(out) >= j /\ out[j].tag = "Ok")

\* C10: the ParserError of a span whose lexing stopped early: leading lexes to
\* its end, trailing starts where no token starts and ends with the span's
\* </p>, leading followed by trailing is the span, no items come with it, and
\* it is written as leading, [ERROR->], trailing.
C10_BlockErrorShape ==
    LET spans == SpanList(input)
    IN  \A k \in 1..Len(out) :
            (out[k].tag = "Err" /\ spans[k].closed) =>
                /\ out[k].leading \o out[k].trailing = spans[k].text
                /\ Lexes(out[k].leading)
                /\ out[k].leading # <<>>
                /\ out[k].trailing # <<>>
                /\ ~block_item(out[k].trailing, 1).ok
                /\ EndsWith(out[k].trailing, CloseText(PName))
                /\ out[k].items = <<>>
                /\ out[k].sources = <<>>
                /\ LET text == ParserErrorFmt(out[k].leading, out[k].trailing)
                       n == Len(out[k].leading)
                   IN  /\ Len(text) = Len(spans[k].text) + 9
                       /\ SubSeq(text, 1, n) = out[k].leading
                       /\ StartsWithAt(text, n + 1, ErrorMarker)
                       /\ From(text, n + 10) = out[k].trailing

\* C10's case: the second span's lexing stopped after some text
C10_Witness ==
    /\ Len(out) >= 2
    /\ out[1].tag = "Ok"
    /\ out[2].tag = "Err"
    /\ Len(out[2].leading) > 3
    /\ Len(out[2].trailing) > 4

----------------------------------------------------------------------------
(* Properties of the tag pairer *)

\* pair_up_items has returned
Paired == rest = <<>> /\ ~halted

\* the indices of the items of f that are tags
TagIdx(f) ==
    {i \in 1..Len(f) : f[i].k \in {"UnpairedTagOpen", "UnpairedTagClose"}}

\* f is <x> <y> </x> </y> at i < j < k < l, with only text elsewhere
CrossNestedAt(f, i, j, k, l) ==
    /\ i < j /\ j < k /\ k < l
    /\ TagIdx(f) = {i, j, k, l}
    /\ f[i].k = "UnpairedTagOpen"
    /\ f[j].k = "UnpairedTagOpen"
    /\ f[k] = UnpairedTagClose(f[i].s)
    /\ f[l] = UnpairedTagClose(f[j].s)
    /\ f[i].s # f[j].s

\* the one pair of a cross-nested f: <x>..</x> is Tagged, what it holds and
\* what follows it is left as it was
CrossNestedResult(f, i, k) ==
    SubSeq(f, 1, i - 1) \o <<Tagged(f[i].s, SubSeq(f, i + 1, k - 1))>>
        \o From(f, k + 1)

\* a close takes the nearest open of its name: of <x><x></x> the first <x>
\* stays open
NearestOpen ==
    \A x \in PairNames :
        (Paired /\ flat = <<UnpairedTagOpen(x), UnpairedTagOpen(x),
                            UnpairedTagClose(x)>>)
        => (/\ Len(stack) = 2
            /\ stack[1] = UnpairedTagOpen(x)
            /\ stack[2].k \notin {"UnpairedTagOpen", "UnpairedTagClose"})

\* C5 as stated: a close takes the nearest open of its name, and every
\* cross-nested <x><y></x></y> gives the one pair Tagged x, holding the
\* residual <y>, followed by the residual </y>.
C5_CrossNestedAnyName ==
    /\ NearestOpen
    /\ \A i, j, k, l \in 1..Len(flat) :
            (Paired /\ CrossNestedAt(flat, i, j, k, l))
            => stack = CrossNestedResult(flat, i, k)

\* C5, amended: a close takes the nearest open of its name, and every
\* cross-nested <x><y></x></y> with x other than source gives the one pair
\* Tagged x, holding the residual <y>, followed by the residual </y>.
C5_CrossNested ==
    /\ NearestOpen
    /\ \A i, j, k, l \in 1..Len(flat) :
            (Paired /\ CrossNestedAt(flat, i, j, k, l)
                /\ flat[i].s # SourceName)
            => stack = CrossNestedResult(flat, i, k)

\* C5's case: <i><b></i></b> has been paired
C5_Witness ==
    /\ Paired
    /\ flat = <<UnpairedTagOpen(<<"i">>), UnpairedTagOpen(BName),
                UnpairedTagClose(<<"i">>), UnpairedTagClose(BName)>>
    /\ stack = <<Tagged(<<"i">>, <<UnpairedTagOpen(BName)>>),
                 UnpairedTagClose(BName)>>

\* the loop is about to take a close whose open is on the stack
ClosesOpen ==
    /\ ~halted
    /\ rest # <<>>
    /\ Head(rest).k = "UnpairedTagClose"
    /\ \E i \in 1..Len(stack) : stack[i] = UnpairedTagOpen(Head(rest).s)

\* the index of the nearest open of the close the loop is about to take
OpenAt ==
    CHOOSE i \in 1..Len(stack) :
        /\ stack[i] = UnpairedTagOpen(Head(rest).s)
        /\ \A h \in (i + 1)..Len(stack) :
                stack[h] # UnpairedTagOpen(Head(rest).s)

\* the reduction rule: the items above the open are removed and the open is
\* replaced by Tagged, holding the removed items in order
Reduced ==
    /\ ~halted'
    /\ rest' = Tail(rest)
    /\ stack' = Append(SubSeq(stack, 1, OpenAt - 1),
                       Tagged(Head(rest).s, SubSeq(stack, OpenAt + 1, Len(stack))))

\* the close the loop is about to take is one the rule is applied to as it
\* stands: not </source>, and not a </col> that has just one Tagged b above
\* its open or, where stack.len() - 2 is checked, nothing but its open below
PlainRule ==
    /\ Head(rest).s # SourceName
    /\ Head(rest).s = ColName =>
            /\ ~SubOverflows(build, Len(stack), 2)
            /\ ~( /\ OpenAt = Len(stack) - 1
                  /\ stack[Len(stack)].k = "Tagged"
                  /\ stack[Len(stack)].s = BName )

----------------------------------------------------------------------------
(* Properties of the identity pipeline *)

RECURSIVE CountKind(_, _)
\* how many items of a tree, nested ones included, satisfy kinds and names
CountKind(items, want) ==
    IF items = <<>> THEN 0
    ELSE (IF <<Head(items).k, Head(items).s>> \in want THEN 1 ELSE 0)
            + CountKind(Head(items).items, want)
            + CountKind(Tail(items), want)

RECURSIVE NamesIn(_)
\* the names and texts the items of a tree carry
NamesIn(items) ==
    IF items = <<>> THEN {}
    ELSE {Head(items).s} \cup NamesIn(Head(items).items)
            \cup NamesIn(Tail(items))

\* how many residual tags a tree has whose name is in names
Residuals(items, names) ==
    CountKind(items, {"UnpairedTagOpen", "UnpairedTagClose"} \X names)

\* how many Source items are left in a tree
SourcesLeft(items) ==
    CountKind(items, {"Source"} \X NamesIn(items))

\* the places of t where the marker [ERROR->] starts
MarkerAt(t) == {i \in 1..Len(t) : StartsWithAt(t, i, ErrorMarker)}

ContainsMarker(t) == MarkerAt(t) # {}

\* the first block was parsed, and the text written for it has been parsed
\* again or that parse has panicked
Reparsed ==
    /\ Len(texts) >= 2
    /\ results[1].tag = "Ok"
    /\ halted \/ Len(results) >= 2

\* the tree of the first block has no residual tag
NoResiduals == Residuals(results[1].items, NamesIn(results[1].items)) = 0

\* the tree of the first block has no Source item outside its sources and no
\* source that stands for a <source> without plain text
NoBadSource ==
    /\ SourcesLeft(results[1].items) = 0
    /\ \A i \in 1..Len(results[1].sources) :
            Source(results[1].sources[i]) # BadSource

Rewritten ==
    /\ Len(texts) >= 2
    /\ results[1].tag = "Ok"
    /\ halted \/ Len(texts) >= 3

\* C2: writing what parsing the written text of a block gives, writes that
\* text again, whether the block has residual tags or not.
C2_EmitIdempotent == Rewritten => (~halted /\ texts[3] = texts[2])

\* C3: a written text that holds [ERROR->] is parsed again without a panic,
\* and the marker is lexed as plain text, so the parse is not an error.
C3_MarkerReparses ==
    (Reparsed /\ ContainsMarker(texts[2]))
    => (~halted /\ results[2].tag = "Ok")

\* the names a residual tag is written for without a marker
DangleNames ==
    { <<"c", "o", "l", "l", "a", "p", "s", "e">>, <<"c", "s">>,
      <<"n", "o", "t", "e">>, <<"u", "s", "a", "g", "e">> }

\* the residual tags of the kinds and names the first block's tree has
ResidualsOf(items) ==
    {Item(k, n, <<>>, <<>>) :
        k \in {"UnpairedTagOpen", "UnpairedTagClose"}, n \in NamesIn(items)}

\* the tag of a residual, as it was read
TagText(r) ==
    IF r.k = "UnpairedTagOpen" THEN OpenText(r.s) ELSE CloseText(r.s)

\* the tag of a residual with the marker before it iff its name may not dangle
MarkedTag(r) ==
    (IF r.s \in DangleNames THEN <<>> ELSE ErrorMarker) \o TagText(r)

\* <p>body</p>
InP(body) == OpenText(PName) \o body \o CloseText(PName)

----------------------------------------------------------------------------
(* The accessors of Parser, called between calls of next() *)

\* "<-- This file is part"
PrefaceStart ==
    <<"<", "-", "-", " ", "T", "h", "i", "s", " ", "f", "i", "l", "e", " ",
      "i", "s", " ", "p", "a", "r", "t">>

\* Parser::get_preface on contents c: <<>> for None, <<text>> for Some(text)
get_preface(c) ==
    IF ~StartsWithAt(c, 1, PrefaceStart) THEN <<>>
    ELSE IF Find(c, 1, <<"-", "-", ">">>) = 0 THEN <<>>
    ELSE <<SubSeq(c, 1, Find(c, 1, <<"-", "-", ">">>) + 2)>>

\* the longest text after the preface of an input of the accessors, in chunks
MaxAfter == 3

\* what the inputs of the accessors begin with
Prefaces ==
    { <<>>,
      PrefaceStart \o <<" ", "x", "-", "-", ">", "\n">>,
      PrefaceStart \o <<"-", "-", ">">>,
      PrefaceStart,
      <<"<", "-", "-", " ", "x", "-", "-", ">">> }

PrefInputs ==
    {pre \o Flatten(cs) : pre \in Prefaces,
                          cs \in SeqsUpTo(ScanChunks, MaxAfter)}

PrefInit ==
    /\ build \in {"debug", "release"}
    /\ input \in PrefInputs
    /\ contents = input
    /\ out = <<>>
    /\ halted = FALSE
    /\ Idle
    /\ OthersIdle

\* one call of get_preface
GetPreface ==
    /\ ~halted
    /\ preface' = <<get_preface(contents)>>
    /\ UNCHANGED <<build, input, contents, out, halted, flat, rest, stack,
                   texts, results, pc, file, patched, outfile, tree, html,
                   block_buffer, yielded, main_word, blocks>>

PrefNext == NextCall \/ GetPreface

PrefSpec == PrefInit /\ [][PrefNext]_vars

\* the input begins with the preface text and has a "-->"
HasPreface ==
    /\ StartsWithAt(input, 1, PrefaceStart)
    /\ Find(input, 1, <<"-", "-", ">">>) # 0

\* the prefix of the input up to and including its first "-->"
PrefaceOf(t) == SubSeq(t, 1, Find(t, 1, <<"-", "-", ">">>) + 2)

\* C11: whenever get_preface is called, before or after calls of next(), it
\* returns the prefix of the input up to and including the first "-->" when
\* the input begins with "<-- This file is part", and none when the input
\* does not begin with that text.
C11_PrefaceAnyTime ==
    preface # <<>> =>
        /\ HasPreface => preface[1] = <<PrefaceOf(input)>>
        /\ ~StartsWithAt(input, 1, PrefaceStart) => preface[1] = <<>>

----------------------------------------------------------------------------
(* The patcher: binutils::patch_using around the loop of identity's patch. *)
(* Parser::next of parser.rs returns the block result alone, so the loop      *)
(* pushes no skipped text.                                                    *)

\* the characters str::trim takes off
Whitespace == {" ", "\n", "\t", "\r"}

RECURSIVE TrimStart(_)
TrimStart(s) ==
    IF s # <<>> /\ Head(s) \in Whitespace THEN TrimStart(Tail(s)) ELSE s

RECURSIVE TrimEnd(_)
TrimEnd(s) ==
    IF s # <<>> /\ s[Len(s)] \in Whitespace
    THEN TrimEnd(SubSeq(s, 1, Len(s) - 1)) ELSE s

\* Parser::remaining on contents c
remaining(c) == TrimEnd(TrimStart(c))

\* what patch pushes for one result of next(): "\n{}\n" of the block or of
\* the error
Pushed(ret) ==
    <<"\n">>
        \o (IF ret.tag = "Ok" THEN BlockFmt(ret.items, ret.sources)
            ELSE ParserErrorFmt(ret.leading, ret.trailing))
        \o <<"\n">>

\* a patch_using that creates the output file before it runs the patcher
CreatesBeforePatching(at) == at \in {"read", "patched"}

\* patch_using creates the output file once the patcher has returned
CreatesAt(at) == at = "patched"

\* the longest file the patcher is run on, in chunks
MaxFile == 4

PatchInit ==
    /\ build \in {"debug", "release"}
    /\ file \in {Flatten(cs) : cs \in SeqsUpTo(ScanChunks, MaxFile)}
    /\ outfile \in {"INFILE", "OUTFILE"}
    /\ pc = "start"
    /\ patched = <<>>
    /\ input = <<>>
    /\ contents = <<>>
    /\ out = <<>>
    /\ halted = FALSE
    /\ preface = <<>>
    /\ tree = <<>>
    /\ html = <<>>
    /\ block_buffer = <<>>
    /\ yielded = <<>>
    /\ main_word = <<>>
    /\ blocks = <<>>
    /\ Idle

\* the variables patch_using leaves alone
NotPatch ==
    <<build, flat, rest, stack, texts, results, preface, outfile, tree, html,
      block_buffer, yielded, main_word, blocks>>

\* read_file(&opt.infile).unwrap_abort(): the contents, or an abort; then the
\* patcher starts with Parser::new(contents)
ReadFile ==
    /\ pc = "start"
    /\ \/ /\ input' = file
          /\ contents' = file
          /\ pc' = "read"
       \/ /\ UNCHANGED <<input, contents>>
          /\ pc' = "read failed"
    /\ UNCHANGED <<file, patched, halted, out>>
    /\ UNCHANGED NotPatch

\* one turn of the patcher's loop: next() panics, or returns a result that is
\* pushed, or returns None and the patcher returns with remaining() pushed
RunPatcher ==
    /\ pc = "read"
    /\ \E r \in {ParserNext(contents, build)} :
           \/ /\ r.panic
              /\ halted' = TRUE
              /\ pc' = "panicked"
              /\ UNCHANGED <<patched, out>>
              /\ contents' = r.contents
           \/ /\ ~r.panic
              /\ r.ret.tag # "None"
              /\ halted' = FALSE
              /\ pc' = "read"
              /\ patched' = patched \o Pushed(r.ret)
              /\ out' = Append(out, r.ret)
              /\ contents' = r.contents
           \/ /\ ~r.panic
              /\ r.ret.tag = "None"
              /\ halted' = FALSE
              /\ pc' = "patched"
              /\ patched' = patched \o remaining(contents)
              /\ out' = Append(out, r.ret)
              /\ contents' = r.contents
    /\ UNCHANGED <<file, input>>
    /\ UNCHANGED NotPatch

\* File::create(outfile).unwrap_abort(): the file is created or truncated, or
\* an abort
CreateFile ==
    /\ CreatesAt(pc)
    /\ ~halted
    /\ \/ /\ pc' = "created"
          /\ file' = IF outfile = "INFILE" THEN <<>> ELSE file
       \/ /\ pc' = "create failed"
          /\ file' = file
    /\ UNCHANGED <<input, contents, out, patched, halted>>
    /\ UNCHANGED NotPatch

\* output_file.write_all(patched).unwrap_abort(): all of it is written, or a
\* part of it and an abort
WriteAll ==
    /\ pc = "created"
    /\ \/ /\ pc' = "done"
          /\ file' = IF outfile = "INFILE" THEN patched ELSE file
       \/ /\ pc' = "write failed"
          /\ \E n \in 0..Len(patched) :
                file' = IF outfile = "INFILE" THEN SubSeq(patched, 1, n)
                        ELSE file
    /\ UNCHANGED <<input, contents, out, patched, halted>>
    /\ UNCHANGED NotPatch

PatchNext == ReadFile \/ RunPatcher \/ CreateFile \/ WriteAll

PatchSpec == PatchInit /\ [][PatchNext]_vars

\* C12: whatever changes INFILE is done after the file has been read whole
\* and the patcher has returned the patched text for what was read, without a
\* panic; so after a failed read or a panic of the patcher INFILE is as it was.
C12_WriteAfterPatching ==
    [][file' # file =>
            /\ pc \in {"patched", "created"}
            /\ ~halted
            /\ pc = "patched" => input = file
            /\ out # <<>>
            /\ out[Len(out)].tag = "None"
            /\ EndsWith(patched, remaining(contents))]_vars

\* C12's case: INFILE has been overwritten with the patched text, which
\* differs from what was read
C12_Witness ==
    /\ pc = "done"
    /\ outfile = "INFILE"
    /\ file = patched
    /\ file # input

----------------------------------------------------------------------------
(* Properties of the emitters and of the lexer's atoms *)

\* the first block of the pipeline holds nothing but plain text and <br/
\* atoms, and has been written
BrBlockWritten ==
    /\ Len(texts) >= 2
    /\ results[1].tag = "Ok"
    /\ results[1].sources = <<>>
    /\ \A i \in 1..Len(results[1].items) :
            results[1].items[i].k \in {"Plain", "EntityBr"}
    /\ \E i \in 1..Len(results[1].items) : results[1].items[i].k = "EntityBr"

\* C13: a <br/ is written as it was read, with its newline when it was
\* followed by one and without when it was not: the text written for a block
\* of plain text and <br/ atoms is the text that was parsed.
C13_BrNewlineKept == BrBlockWritten => texts[2] = texts[1]

\* the longest entity name of the lexer's inputs
MaxName == 3

\* the characters the entity names of the lexer's inputs are made of
NameChars == {"a", "Z", "1", "b", "r", ":", "_", "?"}

\* <p><name/</p>
EntityBlock(name) == InP(<<"<">> \o name \o <<"/">>)

\* Parser::new on a block that holds one entity
EntInit ==
    /\ build \in {"debug", "release"}
    /\ input \in {EntityBlock(n) : n \in SeqsUpTo(NameChars, MaxName) \ {<<>>}}
    /\ contents = input
    /\ out = <<>>
    /\ halted = FALSE
    /\ Idle
    /\ OthersIdle

EntSpec == EntInit /\ [][Next]_vars

\* the name between "<p><" and "/</p>" of the input
NameRead == SubSeq(input, 5, Len(input) - 5)

\* the entity-name alphabet [0-9A-Za-z:_]
EntityAlphabet == Alphanumeric \cup {":", "_"}

\* C14: <name/ is lexed as Entity(name) for every non-empty name over
\* [0-9A-Za-z:_] other than br, names with ':' or '_' included; <?/ is lexed
\* as EntityUnk and <br/ as EntityBr.
C14_EntityAlphabet ==
    out # <<>> =>
        /\ NameRead = <<"?">> => out[1] = SomeOk(<<EntityUnk>>, <<>>)
        /\ NameRead = <<"b", "r">> => out[1] = SomeOk(<<EntityBr>>, <<>>)
        /\ (/\ NameRead # <<"b", "r">>
            /\ \A i \in 1..Len(NameRead) : NameRead[i] \in EntityAlphabet)
           => out[1] = SomeOk(<<Entity(NameRead)>>, <<>>)

----------------------------------------------------------------------------
(* The HTML emitter: conv_html and fmt_html of tohtml.rs.  A character     *)
(* outside ASCII is one element of the text, written "U+2019"; an           *)
(* EntryItem is an Item whose u is the source attribute of a Tagged         *)
(* (<<>> for None, <<text>> for Some(text)); PlainText is k = "Plain".      *)

RECURSIVE Replace(_, _, _)
\* str::replace: every match of pat in s, found from left to right without
\* overlap, replaced by rep
Replace(s, pat, rep) ==
    IF s = <<>> THEN <<>>
    ELSE IF StartsWithAt(s, 1, pat)
    THEN rep \o Replace(From(s, Len(pat) + 1), pat, rep)
    ELSE <<Head(s)>> \o Replace(Tail(s), pat, rep)

\* the rows of entity_to_unicode the written items use, and its last row
entity_to_unicode(name) ==
    CASE name = <<"l", "t">> -> <<"<">>
      [] name = <<"g", "t">> -> <<">">>
      [] name = <<"m", "d", "a", "s", "h">> -> <<"U+2014">>
      [] OTHER -> <<"U+FFFD">>

\* entity_to_html
entity_to_html(name) ==
    CASE name = <<"l", "t">> -> <<"&", "l", "t", ";">>
      [] name = <<"g", "t">> -> <<"&", "g", "t", ";">>
      [] name = <<"a", "i", "t">> -> <<"<", "i", ">", "a", "<", "/", "i", ">">>
      [] name = <<"e", "i", "t">> -> <<"<", "i", ">", "e", "<", "/", "i", ">">>
      [] name = <<"i", "i", "t">> -> <<"<", "i", ">", "i", "<", "/", "i", ">">>
      [] name = <<"o", "i", "t">> -> <<"<", "i", ">", "o", "<", "/", "i", ">">>
      [] name = <<"u", "i", "t">> -> <<"<", "i", ">", "u", "<", "/", "i", ">">>
      [] OTHER -> entity_to_unicode(name)

\* process_symbols_in_text
process_symbols_in_text(text) ==
    Replace(Replace(Replace(text, <<"'">>, <<"U+2019">>),
                    <<"-", "-", "-", "-">>, <<"U+23AF", "U+23AF", "U+23AF">>),
            <<"-", "-">>, entity_to_unicode(<<"m", "d", "a", "s", "h">>))

\* text.replace("&", "&amp;")
EscapeAmp(text) == Replace(text, <<"&">>, <<"&", "a", "m", "p", ";">>)

\* the names fmt_html writes as <span class="name">
SpanTags ==
    { <<"e", "t", "y">>, <<"e", "t", "s">>, <<"e", "t", "s", "e", "p">>,
      <<"p", "r">>, <<"d", "e", "f">>, <<"a", "l", "t", "n", "a", "m", "e">>,
      <<"c", "o", "l">>, <<"c", "d">>, <<"p", "l", "a", "i", "n">>,
      <<"f", "l", "d">>, <<"m", "a", "r", "k">>, <<"s", "d">>, <<"s", "n">>,
      <<"a", "u">>, <<"e", "c", "o", "l">>, <<"s", "t", "y", "p", "e">> }

\* the names fmt_html writes as <em>
EmTags ==
    { <<"p", "o", "s">>, <<"p", "l", "u", "f">>, <<"s", "i", "n", "g", "f">>,
      <<"c", "l", "a", "s", "s">>, <<"f", "a", "m">>, <<"g", "e", "n">>,
      <<"o", "r", "d">>, <<"s", "p", "n">>, <<"e", "x">>, <<"q", "e", "x">>,
      <<"x", "e", "x">>, <<"i", "t">>, <<"s", "i", "g">> }

\* the names fmt_html writes as <strong class="altf">
AltfTags ==
    { <<"a", "s", "p">>, <<"a", "d", "j", "f">>, <<"c", "o", "n", "j", "f">>,
      <<"d", "e", "c", "f">>, <<"p", "l", "w">>, <<"s", "i", "n", "g", "w">>,
      <<"w", "f">> }

\* the names fmt_html writes as <a class="name" href="#">
LinkTags ==
    { <<"e", "r">>, <<"s", "n", "r">>, <<"s", "d", "r">>,
      <<"c", "r", "e", "f">> }

\* the names whose items fmt_html writes with no element around them
BareTags ==
    { <<"a", "s">>, <<"d", "e", "f", "2">>, <<"a", "l", "t", "s", "p">>,
      <<"c", "s">>, <<"m", "c", "o", "l">>, <<"m", "h", "w">>,
      <<"n", "o", "t", "e">>, <<"s", "y", "n">>, <<"u", "s", "a", "g", "e">>,
      <<"m", "o", "r", "d">>, <<"r", "j">>, <<"s", "p", "e", "c", "i", "f">>,
      <<"b", "o", "o", "k">>, <<"o", "r", "g">>, <<"c", "i", "t", "y">>,
      <<"c", "o", "u", "n", "t", "r", "y">>, <<"g", "e", "o", "g">>,
      <<"p", "l", "u">>, <<"s", "i", "n", "g">>,
      <<"a", "m", "o", "r", "p", "h">>, <<"n", "m", "o", "r", "p", "h">>,
      <<"v", "m", "o", "r", "p", "h">>,
      <<"w", "o", "r", "d", "f", "o", "r", "m", "s">>, <<"q">>,
      <<"q", "a", "u">> }

\* fmt_tag's opening: <tagname class="class"> or <tagname>; class is <<>> for
\* None, <<text>> for Some(text)
TagOpenHtml(tagname, class) ==
    IF class # <<>>
    THEN <<"<">> \o tagname \o <<" ", "c", "l", "a", "s", "s", "=", "\"">> \o class[1]
            \o <<"\"", ">">>
    ELSE <<"<">> \o tagname \o <<">">>

RECURSIVE fmt_html(_, _)
RECURSIVE FmtHtmlItems(_, _)
RECURSIVE FmtOneof(_, _)
\* DisplayHTML for EntryItem; ctx_tag is <<>> for None, <<name>> for
\* Some(name)
fmt_html(item, ctx_tag) ==
    CASE item.k = "Comment" -> <<>>
      [] item.k = "Entity" -> entity_to_html(item.s)
      [] item.k = "EntityBr" -> <<"<", "b", "r", "/", ">", "\n">>
      [] item.k = "EntityUnk" -> <<"&", "#", "x", "f", "f", "f", "d", ";">>
      [] item.k = "ExternalLink" ->
            <<"<", "a", " ", "c", "l", "a", "s", "s", "=", "\"", "e", "x", "t", "e", "r", "n", "\"", " ", "h", "r", "e", "f", "=", "\"">>
                \o item.u \o <<"\"", ">">> \o item.s \o <<"<", "/", "a", ">">>
      [] item.k = "Plain" ->
            IF ctx_tag = <<<<"p", "r", "e">>>>
            THEN EscapeAmp(item.s)
            ELSE EscapeAmp(process_symbols_in_text(item.s))
      [] item.k = "Tagged" ->
            CASE item.s = <<"p">> ->
                    (IF item.u # <<>>
                     THEN <<"<", "p", " ", "d", "a", "t", "a", "-", "s", "o", "u", "r", "c", "e", "=", "\"">>
                            \o item.u[1] \o <<"\"", ">">>
                     ELSE <<"<", "p", ">">>)
                        \o FmtHtmlItems(item.items, <<item.s>>)
                        \o <<"<", "/", "p", ">">>
              [] item.s = <<"h", "w">> ->
                    TagOpenHtml(<<"s", "t", "r", "o", "n", "g">>, <<item.s>>)
                        \o FmtHtmlItems(item.items, <<item.s>>)
                        \o <<"<", "/", "s", "t", "r", "o", "n", "g", ">">>
              [] item.s \in SpanTags ->
                    TagOpenHtml(<<"s", "p", "a", "n">>, <<item.s>>)
                        \o FmtHtmlItems(item.items, <<item.s>>)
                        \o <<"<", "/", "s", "p", "a", "n", ">">>
              [] item.s \in EmTags ->
                    TagOpenHtml(<<"e", "m">>, <<>>)
                        \o FmtHtmlItems(item.items, <<item.s>>)
                        \o <<"<", "/", "e", "m", ">">>
              [] item.s \in AltfTags ->
                    TagOpenHtml(<<"s", "t", "r", "o", "n", "g">>, <<<<"a", "l", "t", "f">>>>)
                        \o FmtHtmlItems(item.items, <<item.s>>)
                        \o <<"<", "/", "s", "t", "r", "o", "n", "g", ">">>
              [] item.s \in LinkTags ->
                    <<"<", "a", " ", "c", "l", "a", "s", "s", "=", "\"">> \o item.s
                        \o <<"\"", " ", "h", "r", "e", "f", "=", "\"", "#", "\"", ">">>
                        \o FmtHtmlItems(item.items, <<item.s>>)
                        \o <<"<", "/", "a", ">">>
              [] item.s \in BareTags -> FmtHtmlItems(item.items, <<item.s>>)
              [] item.s = <<"o", "n", "e", "o", "f">> ->
                    FmtOneof(item.items, ctx_tag)
              [] OTHER ->
                    <<"&", "#", "x", "f", "f", "f", "d", ";", "<", "!", "-", "-">>
                        \o item.s \o <<"-", "-", ">">>
      [] item.k = "UnpairedTagOpen" -> <<>>
      [] item.k = "UnpairedTagClose" -> <<>>

\* DisplayHTML for Vec<EntryItem>
FmtHtmlItems(items, ctx_tag) ==
    IF items = <<>> THEN <<>>
    ELSE fmt_html(Head(items), ctx_tag) \o FmtHtmlItems(Tail(items), ctx_tag)

\* the loop of the "oneof" arm
FmtOneof(items, ctx_tag) ==
    IF items = <<>> THEN <<>>
    ELSE (IF Head(items).k = "Tagged" /\ Head(items).s = <<"c">>
          THEN FmtHtmlItems(Head(items).items, ctx_tag)
          ELSE fmt_html(Head(items), <<<<"p", "l", "a", "i", "n">>>>))
            \o FmtOneof(Tail(items), ctx_tag)

\* Some(Ok(Entry { main_word, source, items }))
OkEntry(word, source, items) ==
    [tag |-> "Ok", main_word |-> word, source |-> source,
     items |-> items, leading |-> <<>>, trailing |-> <<>>]

\* Some(Err(error)) of the entry parser, a ParserError { leading, trailing }
ErrEntry(leading, trailing) ==
    [tag |-> "Err", main_word |-> <<>>, source |-> <<>>, items |-> <<>>,
     leading |-> leading, trailing |-> trailing]

\* DisplayHTML for Entry
EntryHtml(e) ==
    <<"<", "d", "i", "v", " ", "c", "l", "a", "s", "s", "=", "\"", "e", "n", "t", "r", "y", "\"", " ", "d", "a", "t", "a", "-", "w", "o", "r", "d", "=", "\"">>
        \o e.main_word
        \o <<"\"", " ", "d", "a", "t", "a", "-", "s", "o", "u", "r", "c", "e", "=", "\"">>
        \o e.source \o <<"\"", ">">>
        \o FmtHtmlItems(e.items, <<>>)
        \o <<"<", "/", "d", "i", "v", ">">>

\* what conv_html writes for one result of the entry parser
EntryPiece(res) ==
    IF res.tag = "Ok" THEN <<"\n">> \o EntryHtml(res) \o <<"\n">>
    ELSE <<"\n", "<", "!", "-", "-", " ", "E", "R", "R", "O", "R", " ", "w", "h", "i", "l", "e", " ", "p", "a", "r", "s", "i", "n", "g", " ", "a", "n", " ", "e", "n", "t", "r", "y", " ", "-", "-", ">", "\n">>

HTMLHEAD ==
    <<"<", "!", "D", "O", "C", "T", "Y", "P", "E", " ", "h", "t", "m", "l",
      ">", "\n", "<", "h", "t", "m", "l", ">", "\n", "<", "h", "e", "a",
      "d", ">", "\n", "<", "m", "e", "t", "a", " ", "h", "t", "t", "p",
      "-", "e", "q", "u", "i", "v", "=", "\"", "c", "o", "n", "t", "e",
      "n", "t", "-", "t", "y", "p", "e", "\"", " ", "c", "o", "n", "t",
      "e", "n", "t", "=", "\"", "t", "e", "x", "t", "/", "h", "t", "m",
      "l", ";", " ", "c", "h", "a", "r", "s", "e", "t", "=", "u", "t", "f",
      "-", "8", "\"", ">", "\n", "<", "t", "i", "t", "l", "e", ">", "W",
      "e", "b", "s", "t", "e", "r", "'", "s", " ", "U", "n", "a", "b", "r",
      "i", "d", "g", "e", "d", " ", "D", "i", "c", "t", "i", "o", "n", "a",
      "r", "y", " ", "1", "9", "1", "3", "<", "/", "t", "i", "t", "l", "e",
      ">", "\n", "<", "/", "h", "e", "a", "d", ">", "\n", "<", "b", "o",
      "d", "y", ">", "\n">>

HTMLTAIL == <<"\n", "<", "/", "b", "o", "d", "y", ">", "\n", "<", "/", "h", "t", "m", "l", ">">>

\* the longest plain text tohtml is given
MaxText == 5

\* the plain texts tohtml is given
TypoTexts == SeqsUpTo({"-", "'", "&", "a"}, MaxText)

PreName == <<"p", "r", "e">>

\* the items of the entries tohtml is given
HtmlItems ==
    {Plain(t) : t \in TypoTexts}
        \cup {Tagged(n, <<Plain(t)>>) :
                n \in {PreName, <<"h", "w">>}, t \in TypoTexts}
        \cup { Entity(<<"l", "t">>), EntityBr, EntityUnk,
               Comment(<<"c">>),
               ExternalLink(<<"u">>, <<"a">>),
               UnpairedTagOpen(<<"i">>), UnpairedTagClose(BName),
               UnpairedTagOpen(<<"n", "o", "t", "e">>),
               Tagged(<<"o", "n", "e", "o", "f">>,
                      <<Tagged(<<"c">>, <<Plain(<<"-", "-">>)>>),
                        Plain(<<"'">>)>>),
               Tagged(<<"d", "e", "f">>, <<UnpairedTagOpen(<<"i">>)>>),
               Tagged(<<"p", "o", "s">>, <<Plain(<<"a">>)>>),
               Tagged(<<"w", "f">>, <<Plain(<<"a">>)>>),
               Tagged(<<"e", "r">>, <<Plain(<<"a">>)>>),
               Tagged(<<"n", "o", "t", "e">>, <<Plain(<<"a">>)>>),
               Item("Tagged", <<"p">>, <<<<"s">>>>, <<Plain(<<"a">>)>>),
               Tagged(<<"p">>, <<Plain(<<"a">>)>>) }

\* the results of the entry parser tohtml is given
HtmlEntries ==
    {OkEntry(<<"Q">>, <<"s">>, <<x>>) : x \in HtmlItems}
        \cup { OkEntry(<<"Q">>, <<>>,
                       <<Plain(<<"a">>), UnpairedTagOpen(<<"i">>),
                         Plain(<<"a">>), UnpairedTagClose(BName)>>),
               ErrEntry(<<"<", "p", ">">>, <<">", "<", "/", "p", ">">>) }

HtmlInit ==
    /\ build \in {"debug", "release"}
    /\ tree \in {<<e>> : e \in HtmlEntries}
                    \cup {<<ErrEntry(<<"a">>, <<"b">>), e>> : e \in HtmlEntries}
    /\ html = <<>>
    /\ pc = "head"
    /\ file = <<>>
    /\ patched = <<>>
    /\ outfile = "INFILE"
    /\ preface = <<>>
    /\ block_buffer = <<>>
    /\ yielded = <<>>
    /\ main_word = <<>>
    /\ blocks = <<>>
    /\ input = <<>>
    /\ contents = <<>>
    /\ out = <<>>
    /\ halted = FALSE
    /\ Idle

\* the variables conv_html leaves alone
NotHtml ==
    <<build, input, contents, out, halted, flat, rest, stack, texts, results,
      preface, file, patched, outfile, tree, block_buffer, yielded,
      main_word, blocks>>

\* write!(output, "{}", HTMLHEAD)
WriteHead ==
    /\ pc = "head"
    /\ html' = <<HTMLHEAD>>
    /\ pc' = "entries"
    /\ UNCHANGED NotHtml

\* one turn of the loop over the entries
WriteEntry ==
    /\ pc = "entries"
    /\ Len(html) <= Len(tree)
    /\ html' = Append(html, EntryPiece(tree[Len(html)]))
    /\ pc' = pc
    /\ UNCHANGED NotHtml

\* write!(output, "{}", HTMLTAIL)
WriteTail ==
    /\ pc = "entries"
    /\ Len(html) = Len(tree) + 1
    /\ html' = Append(html, HTMLTAIL)
    /\ pc' = "done"
    /\ UNCHANGED NotHtml

HtmlNext == WriteHead \/ WriteEntry \/ WriteTail

HtmlSpec == HtmlInit /\ [][HtmlNext]_vars

RECURSIVE Typography(_)
\* plain text read once from left to right: four hyphens give three U+23AF,
\* two hyphens U+2014, an apostrophe U+2019, an ampersand &amp;
Typography(s) ==
    IF s = <<>> THEN <<>>
    ELSE IF StartsWithAt(s, 1, <<"-", "-", "-", "-">>)
    THEN <<"U+23AF", "U+23AF", "U+23AF">> \o Typography(From(s, 5))
    ELSE IF StartsWithAt(s, 1, <<"-", "-">>)
    THEN <<"U+2014">> \o Typography(From(s, 3))
    ELSE IF Head(s) = "'" THEN <<"U+2019">> \o Typography(Tail(s))
    ELSE IF Head(s) = "&"
    THEN <<"&", "a", "m", "p", ";">> \o Typography(Tail(s))
    ELSE <<Head(s)>> \o Typography(Tail(s))

RECURSIVE AmpOnly(_)
\* plain text with nothing but its ampersands replaced
AmpOnly(s) ==
    IF s = <<>> THEN <<>>
    ELSE (IF Head(s) = "&" THEN <<"&", "a", "m", "p", ";">> ELSE <<Head(s)>>)
            \o AmpOnly(Tail(s))

\* t holds pat somewhere
Contains(t, pat) == \E i \in 1..(Len(t) + 1) : StartsWithAt(t, i, pat)

\* the <div ..> an entry is written in
DivOpen(e) ==
    <<"<", "d", "i", "v", " ", "c", "l", "a", "s", "s", "=", "\"", "e", "n", "t", "r", "y", "\"", " ", "d", "a", "t", "a", "-", "w", "o", "r", "d", "=", "\"">>
        \o e.main_word
        \o <<"\"", " ", "d", "a", "t", "a", "-", "s", "o", "u", "r", "c", "e", "=", "\"">>
        \o e.source \o <<"\"", ">">>

\* what is written between the <div ..> and the </div> of entry k
Inside(k) ==
    SubSeq(html[k + 1], Len(DivOpen(tree[k])) + 2, Len(html[k + 1]) - 7)

\* C15: outside pre a plain text is written with its apostrophes, runs of
\* four hyphens, remaining pairs of hyphens and ampersands replaced; a plain
\* text that is the child of a Tagged pre is written with its ampersands
\* replaced and nothing else.
C15_Typography ==
    pc = "done" =>
        \A k \in 1..Len(tree) : \A t \in TypoTexts :
            /\ tree[k].tag = "Ok" /\ tree[k].items = <<Plain(t)>>
               => Inside(k) = Typography(t)
            /\ tree[k].tag = "Ok" /\ t # <<>>
                    /\ tree[k].items = <<Tagged(PreName, <<Plain(t)>>)>>
               => Contains(Inside(k), AmpOnly(t))

\* C16: a parse error is written by both emitters as leading, [ERROR->],
\* trailing, and every residual tag whose name may not dangle gives a marker
\* in what both emitters write.
C16_DefectsVisible ==
    pc = "done" =>
        \A k \in 1..Len(tree) :
            /\ tree[k].tag = "Err" =>
                /\ ParserErrorFmt(tree[k].leading, tree[k].trailing)
                     = tree[k].leading \o ErrorMarker \o tree[k].trailing
                /\ Contains(html[k + 1],
                            tree[k].leading \o ErrorMarker \o tree[k].trailing)
            /\ tree[k].tag = "Ok" =>
                /\ Cardinality(MarkerAt(FmtCideItems(tree[k].items)))
                     = Residuals(tree[k].items,
                                 NamesIn(tree[k].items) \ DangleNames)
                /\ Cardinality(MarkerAt(html[k + 1]))
                     = Residuals(tree[k].items,
                                 NamesIn(tree[k].items) \ DangleNames)

----------------------------------------------------------------------------
(* Properties of the scanner's iteration *)

\* C17: every call of next() returns; a call that returns Some leaves less
\* text unscanned than there was, so that only finitely many calls return
\* Some and the next one returns None; after None every call returns None.
C17_FiniteScan ==
    [][ /\ Len(out') = Len(out) + 1
        /\ out'[Len(out')].tag # "None" => Len(contents') < Len(contents)
        /\ (out # <<>> /\ out[Len(out)].tag = "None")
                => out'[Len(out')].tag = "None" ]_vars

----------------------------------------------------------------------------
(* Properties of the spans handed to process_block_items *)

\* the longest input of the span scanner, in chunks
MaxSpan == 4

\* the pieces the span scanner's inputs are made of: tags of p, the openings
\* and endings of the tokens that can hold a '<', and their parts
SpanChunks ==
    { <<"<", "p", ">">>, <<"<", "/", "p", ">">>, <<"t">>,
      <<"<", "-", "-">>, <<"-", "-", ">">>,
      LinkOpen, <<"\"", ">">>, <<"<", "/", "a", ">">>,
      <<"<">>, <<"/">> }

SpanInit ==
    /\ build \in {"debug", "release"}
    /\ input \in {Flatten(cs) : cs \in SeqsUpTo(SpanChunks, MaxSpan)}
    /\ contents = input
    /\ out = <<>>
    /\ halted = FALSE
    /\ Idle
    /\ OthersIdle

SpanSpec == SpanInit /\ [][Next]_vars

\* the next call of next() finds a <p> and a </p> after it
HasSpan(c) ==
    /\ block_start(c) # 0
    /\ Find(From(c, block_start(c)), 1, <<"<", "/", "p", ">">>) # 0

\* the span the next call of next() lexes: from the <p> to the end of the
\* first </p> after it
SpanOf(c) ==
    SubSeq(From(c, block_start(c)), 1,
           Find(From(c, block_start(c)), 1, <<"<", "/", "p", ">">>) + 3)

\* C18: whenever the span next() is about to lex is lexed completely, the
\* items are at least two, the first is UnpairedTagOpen("p") and the last
\* UnpairedTagClose("p"); and every item the lexer takes consumes text, so
\* that many0 has no error to return.
C18_AssertionsHold ==
    (~halted /\ HasSpan(contents)) =>
        /\ Lexes(SpanOf(contents)) =>
            /\ Len(parse_items(SpanOf(contents)).items) >= 2
            /\ Head(parse_items(SpanOf(contents)).items)
                 = UnpairedTagOpen(PName)
            /\ parse_items(SpanOf(contents)).items[
                    Len(parse_items(SpanOf(contents)).items)]
                 = UnpairedTagClose(PName)
        /\ \A i \in 1..Len(SpanOf(contents)) :
                block_item(SpanOf(contents), i).ok
                => block_item(SpanOf(contents), i).next > i

\* C18's case: a span that holds a comment has been lexed completely, has
\* passed the assertions and made a block
C18_Witness ==
    /\ out # <<>>
    /\ out[1].tag = "Ok"
    /\ \E i \in 1..Len(out[1].items) : out[1].items[i].k = "Comment"

----------------------------------------------------------------------------
(* What the tag pairer keeps *)

RECURSIVE Unpair(_)
\* the flat list a paired list stands for: each Tagged is its open tag, its
\* items and its close tag, each Source the <source> tags around its text
Unpair(items) ==
    IF items = <<>> THEN <<>>
    ELSE LET item == Head(items)
         IN  (CASE item.k = "Tagged" ->
                    <<UnpairedTagOpen(item.s)>> \o Unpair(item.items)
                        \o <<UnpairedTagClose(item.s)>>
                [] item.k = "Source" ->
                    <<UnpairedTagOpen(SourceName), Plain(item.s),
                      UnpairedTagClose(SourceName)>>
                [] OTHER -> <<item>>)
             \o Unpair(Tail(items))

\* the loop is about to take a </source> whose open has something other than
\* one Plain above it: the items above are replaced by the error text
SourceError ==
    /\ ClosesOpen
    /\ Head(rest).s = SourceName
    /\ ~( /\ OpenAt = Len(stack) - 1
          /\ stack[Len(stack)].k = "Plain" )

\* the loop is about to take a </col> whose open has one Tagged b above it:
\* the items of the b are moved into the col, the tags of the b are gone
ColOverB ==
    /\ ClosesOpen
    /\ Head(rest).s = ColName
    /\ OpenAt = Len(stack) - 1
    /\ stack[Len(stack)].k = "Tagged"
    /\ stack[Len(stack)].s = BName

\* C19 as stated: for every flat list, what pair_up_items returns stands for
\* exactly that list, nothing lost and nothing out of order.
C19_NothingLostAnyList == Paired => Unpair(stack) = flat

\* C19, amended: every iteration of the loop that completes adds the item it
\* takes to the end of the list the stack stands for, and changes nothing
\* else of it, unless it takes a </source> whose open has something other
\* than one Plain above it or a </col> whose open has one Tagged b above it.
C19_NothingLost ==
    [][(rest # <<>> /\ rest' = Tail(rest) /\ ~SourceError /\ ~ColOverB)
            => Unpair(stack') = Unpair(stack) \o <<Head(rest)>>]_vars

\* C19's case: a list with a pair in it has been paired, and the result
\* stands for the list
C19_Witness ==
    /\ Paired
    /\ \E i \in 1..Len(stack) :
            stack[i].k = "Tagged" /\ stack[i].items # <<>>
    /\ Unpair(stack) = flat

----------------------------------------------------------------------------
(* EntryBuilder: EntryBuilder::new(input), then calls of next() *)

EntName == <<"e", "n", "t">>

\* the longest input of EntryBuilder, in blocks
MaxBlocks == 3

\* the most values EntryBuilder::next returns on one input
MaxYield == 4

\* the blocks EntryBuilder's inputs are made of: a header block, a header
\* block with nothing after the <ent>, one with <br/ after it, a block
\* without a header, an empty block, a block with an empty <ent>, and a block
\* that does not lex
EbBlocks ==
    { <<"<", "p", ">", "<", "e", "n", "t", ">", "Q", "<", "/", "e", "n",
        "t", ">", "t", "<", "/", "p", ">">>,
      <<"<", "p", ">", "<", "e", "n", "t", ">", "Q", "<", "/", "e", "n",
        "t", ">", "<", "/", "p", ">">>,
      <<"<", "p", ">", "<", "e", "n", "t", ">", "Q", "<", "/", "e", "n",
        "t", ">", "<", "b", "r", "/", "\n", "t", "<", "/", "p", ">">>,
      <<"<", "p", ">", "t", "<", "/", "p", ">">>,
      <<"<", "p", ">", "<", "/", "p", ">">>,
      <<"<", "p", ">", "<", "e", "n", "t", ">", "<", "/", "e", "n", "t",
        ">", "t", "<", "/", "p", ">">>,
      <<"<", "p", ">", "<", "<", "/", "p", ">">> }

EbInputs == {Flatten(bs) : bs \in SeqsUpTo(EbBlocks, MaxBlocks)}

\* a result of Parser::next held by EntryBuilder, with its position among the
\* results the parser has returned
Carried(res, at) == [res |-> res, at |-> at]

\* Some(Ok(Entry { main_word, blocks }))
EntryValue(word, blks) ==
    [tag |-> "Entry", main_word |-> word, carried |-> blks]

\* Some(Err(BuilderError::BadBlock(block)))
BadBlock(block) ==
    [tag |-> "BadBlock", main_word |-> <<>>, carried |-> <<block>>]

\* Some(Err(BuilderError::FromParser(err)))
FromParser(err) ==
    [tag |-> "FromParser", main_word |-> <<>>, carried |-> <<err>>]

\* None, returned by EntryBuilder::next
NoEntry == [tag |-> "None", main_word |-> <<>>, carried |-> <<>>]

RECURSIVE ScanHeaders(_, _, _)
\* the loop over block.items at the head of next(), from index idx: bad_block
\* and last_ent (the 1-based index of the last <ent> header, 0 for None)
ScanHeaders(items, idx, last) ==
    IF idx > Len(items) THEN [bad |-> FALSE, last_ent |-> last]
    ELSE IF items[idx].k = "Tagged" /\ items[idx].s = EntName
    THEN IF /\ Len(items[idx].items) = 1
            /\ items[idx].items[1].k = "Plain"
         THEN ScanHeaders(items, idx + 1, idx)
         ELSE [bad |-> TRUE, last_ent |-> last]
    ELSE IF items[idx].k = "EntityBr"
    THEN ScanHeaders(items, idx + 1, last)
    ELSE [bad |-> FALSE, last_ent |-> last]

\* self.block_buffer.take().or_else(|| self.parser.next())
TakeNext(buf, c, bld) ==
    IF buf # <<>>
    THEN [panic |-> FALSE, ret |-> buf[1].res, contents |-> c]
    ELSE ParserNext(c, bld)

\* block.items.drain(..ent_idx+2) after a header followed by <br/, else
\* block.items.drain(..ent_idx+1); last is the header's 1-based index
DrainHeaders(items, last) ==
    IF items[last + 1].k = "EntityBr"
    THEN From(items, last + 2)
    ELSE From(items, last + 1)

EbInit ==
    /\ build \in {"debug", "release"}
    /\ input \in EbInputs
    /\ contents = input
    /\ out = <<>>
    /\ halted = FALSE
    /\ Idle
    /\ preface = <<>>
    /\ pc = "idle"
    /\ file = <<>>
    /\ patched = <<>>
    /\ outfile = "INFILE"
    /\ tree = <<>>
    /\ html = <<>>
    /\ block_buffer = <<>>
    /\ yielded = <<>>
    /\ main_word = <<>>
    /\ blocks = <<>>

\* what EntryBuilder leaves alone
NotBuilder ==
    <<build, input, flat, rest, stack, texts, results, preface, file, patched,
      outfile, tree, html>>

\* a call of EntryBuilder::next, up to its while loop
BuilderCall ==
    /\ ~halted
    /\ pc = "idle"
    /\ Len(yielded) < MaxYield
    /\ \E r \in {TakeNext(block_buffer, contents, build)} :
       \E at \in {IF block_buffer # <<>> THEN block_buffer[1].at
                  ELSE Len(out) + 1} :
       \E h \in {ScanHeaders(r.ret.items, 1, 0)} :
           /\ contents' = r.contents
           /\ block_buffer' = <<>>
           /\ out' = IF block_buffer = <<>> /\ ~r.panic
                     THEN Append(out, r.ret) ELSE out
           /\ \/ /\ r.panic
                 /\ halted' = TRUE
                 /\ UNCHANGED <<yielded, pc, main_word, blocks>>
              \/ /\ ~r.panic
                 /\ r.ret.tag = "None"
                 /\ halted' = FALSE
                 /\ yielded' = Append(yielded, NoEntry)
                 /\ UNCHANGED <<pc, main_word, blocks>>
              \/ /\ ~r.panic
                 /\ r.ret.tag = "Err"
                 /\ halted' = FALSE
                 /\ yielded' = Append(yielded, FromParser(Carried(r.ret, at)))
                 /\ UNCHANGED <<pc, main_word, blocks>>
              \/ /\ ~r.panic
                 /\ r.ret.tag = "Ok"
                 /\ h.bad \/ h.last_ent = 0
                 /\ halted' = FALSE
                 /\ yielded' = Append(yielded, BadBlock(Carried(r.ret, at)))
                 /\ UNCHANGED <<pc, main_word, blocks>>
              \/ \* block.items[ent_idx+1]: index out of bounds
                 /\ ~r.panic
                 /\ r.ret.tag = "Ok"
                 /\ ~h.bad
                 /\ h.last_ent # 0
                 /\ h.last_ent + 1 > Len(r.ret.items)
                 /\ halted' = TRUE
                 /\ UNCHANGED <<yielded, pc, main_word, blocks>>
              \/ /\ ~r.panic
                 /\ r.ret.tag = "Ok"
                 /\ ~h.bad
                 /\ h.last_ent # 0
                 /\ h.last_ent + 1 <= Len(r.ret.items)
                 /\ halted' = FALSE
                 /\ blocks' =
                      <<Carried(SomeOk(DrainHeaders(r.ret.items, h.last_ent),
                                       r.ret.sources), at)>>
                 /\ main_word' = r.ret.items[h.last_ent].items[1].s
                 /\ pc' = "while"
                 /\ UNCHANGED yielded
    /\ UNCHANGED NotBuilder

\* one turn of `while let Some(block_res) = self.parser.next()`, and the
\* return that follows the loop when this turn ends it
BuilderWhile ==
    /\ ~halted
    /\ pc = "while"
    /\ \E r \in {ParserNext(contents, build)} :
           /\ contents' = r.contents
           /\ out' = IF r.panic THEN out ELSE Append(out, r.ret)
           /\ \/ /\ r.panic
                 /\ halted' = TRUE
                 /\ UNCHANGED <<yielded, pc, main_word, blocks, block_buffer>>
              \/ /\ ~r.panic
                 /\ r.ret.tag = "None"
                 /\ halted' = FALSE
                 /\ yielded' = Append(yielded, EntryValue(main_word, blocks))
                 /\ pc' = "idle"
                 /\ main_word' = <<>>
                 /\ blocks' = <<>>
                 /\ UNCHANGED block_buffer
              \/ /\ ~r.panic
                 /\ r.ret.tag = "Err"
                 /\ halted' = FALSE
                 /\ block_buffer' = <<Carried(r.ret, Len(out) + 1)>>
                 /\ yielded' = Append(yielded, EntryValue(main_word, blocks))
                 /\ pc' = "idle"
                 /\ main_word' = <<>>
                 /\ blocks' = <<>>
              \/ \* block.items[0]: index out of bounds
                 /\ ~r.panic
                 /\ r.ret.tag = "Ok"
                 /\ r.ret.items = <<>>
                 /\ halted' = TRUE
                 /\ UNCHANGED <<yielded, pc, main_word, blocks, block_buffer>>
              \/ /\ ~r.panic
                 /\ r.ret.tag = "Ok"
                 /\ r.ret.items # <<>>
                 /\ r.ret.items[1].k = "Tagged"
                 /\ r.ret.items[1].s = EntName
                 /\ halted' = FALSE
                 /\ block_buffer' = <<Carried(r.ret, Len(out) + 1)>>
                 /\ yielded' = Append(yielded, EntryValue(main_word, blocks))
                 /\ pc' = "idle"
                 /\ main_word' = <<>>
                 /\ blocks' = <<>>
              \/ /\ ~r.panic
                 /\ r.ret.tag = "Ok"
                 /\ r.ret.items # <<>>
                 /\ ~(r.ret.items[1].k = "Tagged" /\ r.ret.items[1].s = EntName)
                 /\ halted' = FALSE
                 /\ blocks' = Append(blocks, Carried(r.ret, Len(out) + 1))
                 /\ UNCHANGED <<yielded, pc, main_word, block_buffer>>
    /\ UNCHANGED NotBuilder

EbNext == BuilderCall \/ BuilderWhile

EbSpec == EbInit /\ [][EbNext]_vars

----------------------------------------------------------------------------
(* Properties of EntryBuilder *)

\* the positions, among the parser's results, of the results in a list
AtsOf(carried) == [i \in 1..Len(carried) |-> carried[i].at]

RECURSIVE Delivered(_)
\* the positions of the results carried by a list of yielded values, in order
Delivered(vals) ==
    IF vals = <<>> THEN <<>>
    ELSE AtsOf(Head(vals).carried) \o Delivered(Tail(vals))

\* the number of block results the parser has returned
Produced == Cardinality({i \in 1..Len(out) : out[i].tag # "None"})

\* a yielded value carries what its kind says: FromParser an Err as the
\* parser returned it, BadBlock an Ok block as returned, an Entry Ok blocks
\* of which the first had <ent> headers leading it and the others are as
\* returned
WellCarried(v) ==
    /\ v.tag = "FromParser" =>
            /\ v.carried[1].res = out[v.carried[1].at]
            /\ v.carried[1].res.tag = "Err"
    /\ v.tag = "BadBlock" =>
            /\ v.carried[1].res = out[v.carried[1].at]
            /\ v.carried[1].res.tag = "Ok"
    /\ v.tag = "Entry" =>
            /\ v.carried # <<>>
            /\ out[v.carried[1].at].tag = "Ok"
            /\ ~ScanHeaders(out[v.carried[1].at].items, 1, 0).bad
            /\ ScanHeaders(out[v.carried[1].at].items, 1, 0).last_ent # 0
            /\ \A i \in 2..Len(v.carried) :
                    /\ v.carried[i].res = out[v.carried[i].at]
                    /\ v.carried[i].res.tag = "Ok"

\* C20: between calls of next(), and when the process has ended, every block
\* result the parser has returned is in exactly one yielded value or in
\* block_buffer, in the order the parser returned them; each value carries
\* what its kind says, and an Entry starts at a block led by <ent> headers.
C20_EveryResultOnce ==
    (pc = "idle" \/ halted) =>
        /\ Delivered(yielded) \o AtsOf(block_buffer)
             = [i \in 1..Produced |-> i]
        /\ \A k \in 1..Len(yielded) : WellCarried(yielded[k])

=============================================================================
